---- MODULE Spec2Model ----
(***************************************************************************)
(* A model of the carno plugin of protoc-gen-go                            *)
(* (src/protoc-gen-go/carno/carno.go).                                     *)
(*                                                                         *)
(* The plugin turns the service descriptors of each input file into Go     *)
(* source text.  Names are modelled as sequences of one-character strings  *)
(* so that CamelCase and unexport are computed, not assumed.  An emitted   *)
(* line is the sequence of the arguments of one g.P call; an argument is   *)
(* a token that is either literal text of the generator (lit) or a name    *)
(* computed from the descriptors (id).                                     *)
(***************************************************************************)
EXTENDS Integers, Sequences, FiniteSets, TLC

\* ------------------------------------------------------------------ bounds

\* The largest number of input files of one generation run.
MaxFiles == 2
\* The largest number of methods of a service.
MaxMethods == 2

\* -------------------------------------------------------------- characters

LowerSeq == <<"a","b","c","d","e","f","g","h","i","j","k","l","m",
              "n","o","p","q","r","s","t","u","v","w","x","y","z">>
UpperSeq == <<"A","B","C","D","E","F","G","H","I","J","K","L","M",
              "N","O","P","Q","R","S","T","U","V","W","X","Y","Z">>
DigitSeq == <<"0","1","2","3","4","5","6","7","8","9">>

isASCIILower(c) == \E i \in 1..Len(LowerSeq) : LowerSeq[i] = c
isASCIIDigit(c) == \E i \in 1..Len(DigitSeq) : DigitSeq[i] = c

\* c ^= ' ' on an ASCII lower-case letter.
ToUpperChar(c) ==
  IF isASCIILower(c)
  THEN UpperSeq[CHOOSE i \in 1..Len(LowerSeq) : LowerSeq[i] = c]
  ELSE c

\* strings.ToLower on one character.
ToLowerChar(c) ==
  IF \E i \in 1..Len(UpperSeq) : UpperSeq[i] = c
  THEN LowerSeq[CHOOSE i \in 1..Len(UpperSeq) : UpperSeq[i] = c]
  ELSE c

\* generator.CamelCase: the loop from position i of s, t being the result
\* so far.  An underscore before a lower-case letter is dropped and that
\* letter starts a new upper-case word; digits are copied; a letter is
\* made upper case and the lower-case run after it is copied.
RECURSIVE CamelRun(_, _, _)
CamelRun(s, i, t) ==
  IF i > Len(s) THEN t
  ELSE LET c == s[i] IN
    IF c = "_" /\ i + 1 <= Len(s) /\ isASCIILower(s[i + 1])
    THEN CamelRun(s, i + 1, t)
    ELSE IF isASCIIDigit(c)
    THEN CamelRun(s, i + 1, Append(t, c))
    ELSE LET run == CHOOSE j \in i..Len(s) :
                      /\ \A k \in (i + 1)..j : isASCIILower(s[k])
                      /\ (j = Len(s) \/ ~isASCIILower(s[j + 1]))
         IN CamelRun(s, run + 1,
                     Append(t, ToUpperChar(c)) \o SubSeq(s, i + 1, run))

CamelCase(s) ==
  IF s = <<>> THEN <<>>
  ELSE IF s[1] = "_" THEN CamelRun(s, 2, <<"X">>)
  ELSE CamelRun(s, 1, <<>>)

\* unexport: strings.ToLower(s[:1]) + s[1:]  (s is never empty here).
unexport(s) == <<ToLowerChar(s[1])>> \o SubSeq(s, 2, Len(s))

\* strings.Replace(pkg, ".", "_", -1)
ReplaceDots(s) == [i \in 1..Len(s) |-> IF s[i] = "." THEN "_" ELSE s[i]]

\* ------------------------------------------------------------------ tokens

\* Literal text of the generator.
L(s) == [lit |-> s, id |-> <<>>]
\* A name computed from the descriptors.
N(n) == [lit |-> "", id |-> n]
\* strconv.Quote of a name: the name between double quotes.
Quote(n) == [lit |-> "\"", id |-> n]

\* g.P(args...): one emitted line, the sequence of its arguments.
P(args) == args

generatedCodeVersion == 4

\* ------------------------------------------------------------- descriptors

\* The leading comment the source info of the file holds for a method, by
\* the method's name: none for Say, two lines for Watch, and a location
\* with an empty leading comment for get_it.  A comment is a sequence of
\* no or one text; a text is a character sequence with "\n" line ends.
LeadingComments(n) ==
  IF n = <<"W","a","t","c","h">>
  THEN << <<" ","u","p","\n"," ","t","o"," ","d","\n">> >>
  ELSE IF n = <<"g","e","t","_","i","t">> THEN << <<>> >>
  ELSE <<>>

\* A MethodDescriptorProto: name, input and output type (the message's
\* name), the two streaming flags, and the leading comment recorded for
\* the method's path.
Method(n, cs, ss) ==
  [name |-> n, inputType |-> <<"r","e","q","_","m","s","g">>,
   outputType |-> <<"R","e","p","l","y">>,
   clientStreaming |-> cs, serverStreaming |-> ss,
   leadingComments |-> LeadingComments(n)]

\* A ServiceDescriptorProto: name and the ordered methods.
Service(n, ms) == [name |-> n, method |-> ms]

\* A FileDescriptor: package name and the ordered services.
File(pkg, svcs) == [package |-> pkg, service |-> svcs]

nSay    == <<"S","a","y">>
nWatch  == <<"W","a","t","c","h">>
nGetIt  == <<"g","e","t","_","i","t">>
nEcho   == <<"E","c","h","o">>
nFooBar == <<"f","o","o","_","b","a","r">>
nUser   == <<"u","s","e","r">>
pDemo   == <<"d","e","m","o">>
pAB     == <<"a",".","b">>
pEmpty  == <<>>

\* The sequences over S of length at most n without a repeated name.
RECURSIVE DistinctSeqs(_, _)
DistinctSeqs(S, n) ==
  IF n = 0 THEN {<<>>}
  ELSE LET shorter == DistinctSeqs(S, n - 1) IN
    shorter \cup
    {Append(q, x) : <<q, x>> \in
       {<<q, x>> \in shorter \X S :
          /\ Len(q) = n - 1
          /\ \A i \in 1..Len(q) : q[i].name # x.name}}

MethodPool ==
  {Method(n, cs, ss) : <<n, cs, ss>> \in {nSay, nWatch, nGetIt} \X BOOLEAN \X BOOLEAN}

\* Runs of one file with one service, over every service name and every
\* mix of unary and streaming methods.
ServiceRuns ==
  {<<File(pDemo, <<Service(n, ms)>>)>> :
     <<n, ms>> \in {nEcho, nFooBar, nUser} \X DistinctSeqs(MethodPool, MaxMethods)}

\* The services the multi-file runs draw from.
ServiceList ==
  <<Service(nEcho, <<Method(nSay, FALSE, FALSE)>>),
    Service(nFooBar, <<Method(nWatch, FALSE, TRUE), Method(nGetIt, FALSE, FALSE)>>),
    Service(nUser, <<Method(nGetIt, FALSE, FALSE)>>)>>

\* The service lists of a file of a multi-file run: none, one or two of
\* the services, in declaration order.
ServiceLists ==
  {<<>>, <<ServiceList[1]>>, <<ServiceList[3]>>,
   <<ServiceList[1], ServiceList[3]>>, <<ServiceList[2], ServiceList[3]>>}

FilePool ==
  {File(pkg, svcs) : <<pkg, svcs>> \in {pEmpty, pDemo, pAB} \X ServiceLists}

RECURSIVE FileSeqs(_)
FileSeqs(n) ==
  IF n = 0 THEN {<<>>}
  ELSE LET shorter == FileSeqs(n - 1) IN
    shorter \cup {Append(q, f) : <<q, f>> \in {<<q, f>> \in shorter \X FilePool : Len(q) = n - 1}}

\* Service names are unique within a package, over all the files of a run.
ValidRun(fs) ==
  \A i, j \in 1..Len(fs) : \A a \in 1..Len(fs[i].service) : \A b \in 1..Len(fs[j].service) :
    (fs[i].package = fs[j].package /\ fs[i].service[a].name = fs[j].service[b].name)
      => (i = j /\ a = b)

\* Runs of up to MaxFiles files, several of which may share a package.
PackageRuns == {fs \in FileSeqs(MaxFiles) : fs # <<>> /\ ValidRun(fs)}

Runs == ServiceRuns \cup PackageRuns

\* ------------------------------------------------------------- signatures

\* reservedClientName: the names suffixed on the client side (none).
reservedClientName == {}

\* g.typeName: the Go name of the message type a method refers to.
typeName(t) == CamelCase(t)

IsStreaming(m) == m.serverStreaming \/ m.clientStreaming

methName(m) ==
  IF CamelCase(m.name) \in reservedClientName
  THEN CamelCase(m.name) \o <<"_">>
  ELSE CamelCase(m.name)

\* generateClientSignature with the stream handle chosen on the server
\* streaming flag alone.
generateClientSignature_mut(servName, m) ==
  LET reqArg == IF m.clientStreaming THEN <<>>
                ELSE <<L(", in *"), N(typeName(m.inputType))>>
      respName == IF m.serverStreaming
                  THEN <<N(servName), L("_"), N(CamelCase(m.name)), L("Client")>>
                  ELSE <<L("*"), N(typeName(m.outputType))>>
  IN <<N(methName(m)), L("(ctx context.Context")>> \o reqArg
       \o <<L(", opts ...options.Option) (")>> \o respName \o <<L(", error)")>>

\* generateClientSignature(servName, method)
generateClientSignature(servName, m) ==
  LET reqArg == IF m.clientStreaming THEN <<>>
                ELSE <<L(", in *"), N(typeName(m.inputType))>>
      respName == IF IsStreaming(m)
                  THEN <<N(servName), L("_"), N(CamelCase(m.name)), L("Client")>>
                  ELSE <<L("*"), N(typeName(m.outputType))>>
  IN <<N(methName(m)), L("(ctx context.Context")>> \o reqArg
       \o <<L(", opts ...options.Option) (")>> \o respName \o <<L(", error)")>>

\* generateServerSignature(servName, method)
generateServerSignature(servName, m) ==
  <<N(methName(m)), L("("), L("context.Context"), L(", "), L("*"),
    N(typeName(m.inputType)), L(") "), L("(*"), N(typeName(m.outputType)),
    L(", error)")>>

\* ---------------------------------------------------------------- emitters

\* Flatten(ss): the concatenation of a sequence of sequences.
RECURSIVE Flatten(_)
Flatten(ss) == IF ss = <<>> THEN <<>> ELSE Head(ss) \o Flatten(Tail(ss))

\* generateClientMethod without the error check after Invoke.
generateClientMethod_mut(servName, m) ==
  << P(<<L("func (c *"), N(unexport(servName)), L("Client) ")>>
         \o generateClientSignature(servName, m) \o <<L("{")>>),
     P(<<L("inBytes, err := proto.Marshal(in)")>>),
     P(<<L("if err != nil{")>>),
     P(<<L("return nil, err")>>),
     P(<<L("}")>>),
     P(<<L("resp, err := c.Client.Invoke(ctx, "), Quote(servName), L(", "),
         Quote(m.name), L(", opts, inBytes)")>>),
     P(<<L("out := new("), N(typeName(m.outputType)), L(")")>>),
     P(<<L("if err := proto.Unmarshal(resp, out); err != nil {")>>),
     P(<<L("return nil, err")>>),
     P(<<L("}")>>),
     P(<<L("return out, nil")>>),
     P(<<L("}")>>),
     P(<<>>) >>

\* generateClientMethod(pkgName, servName, fullServName, serviceDescVar,
\* method, descExpr): the lines of one client method.
generateClientMethod(servName, m) ==
  << P(<<L("func (c *"), N(unexport(servName)), L("Client) ")>>
         \o generateClientSignature(servName, m) \o <<L("{")>>),
     P(<<L("inBytes, err := proto.Marshal(in)")>>),
     P(<<L("if err != nil{")>>),
     P(<<L("return nil, err")>>),
     P(<<L("}")>>),
     P(<<L("resp, err := c.Client.Invoke(ctx, "), Quote(servName), L(", "),
         Quote(m.name), L(", opts, inBytes)")>>),
     P(<<L("if err!=nil{")>>),
     P(<<L("return nil,err")>>),
     P(<<L("}")>>),
     P(<<L("out := new("), N(typeName(m.outputType)), L(")")>>),
     P(<<L("if err := proto.Unmarshal(resp, out); err != nil {")>>),
     P(<<L("return nil, err")>>),
     P(<<L("}")>>),
     P(<<L("return out, nil")>>),
     P(<<L("}")>>),
     P(<<>>) >>

\* strings.TrimSuffix(text, "\n")
TrimSuffixNewline(t) ==
  IF t # <<>> /\ t[Len(t)] = "\n" THEN SubSeq(t, 1, Len(t) - 1) ELSE t

\* strings.TrimPrefix(line, " ")
TrimPrefixSpace(t) ==
  IF t # <<>> /\ t[1] = " " THEN SubSeq(t, 2, Len(t)) ELSE t

\* strings.Split(text, "\n"): at least one line, the empty text's being empty.
RECURSIVE SplitLines(_)
SplitLines(t) ==
  IF \E k \in 1..Len(t) : t[k] = "\n"
  THEN LET k == CHOOSE j \in 1..Len(t) :
                  t[j] = "\n" /\ \A h \in 1..(j - 1) : t[h] # "\n"
       IN <<SubSeq(t, 1, k - 1)>> \o SplitLines(SubSeq(t, k + 1, Len(t)))
  ELSE <<t>>

\* g.gen.PrintComments(path): when the file has a comment at the path, one
\* "// " line per line of its leading comment; nothing otherwise.
PrintComments(comments) ==
  IF comments = <<>> THEN <<>>
  ELSE LET lines == SplitLines(TrimSuffixNewline(comments[1])) IN
    [j \in 1..Len(lines) |-> P(<<L("// "), N(TrimPrefixSpace(lines[j]))>>)]

\* generateService up to the call of generateServerSetting: the client
\* interface, the client structure, the factory, the client methods and
\* the server interface.
ServiceHead(file, service) ==
  LET origServName == service.name
      servName == CamelCase(origServName)
      methods == service.method
  IN << P(<<>>),
        P(<<L("// Client API for "), N(servName), L(" service")>>),
        P(<<L("type "), N(servName), L("Client interface {")>>) >>
     \o Flatten([i \in 1..Len(methods) |->
                   PrintComments(methods[i].leadingComments)
                     \o <<P(generateClientSignature(servName, methods[i]))>>])
     \o << P(<<L("}")>>),
           P(<<>>),
           P(<<L("type "), N(unexport(servName)), L("Client struct {")>>),
           P(<<L("*client.Client")>>),
           P(<<L("}")>>),
           P(<<>>),
           P(<<L("func New"), N(servName), L("Client (opts *options.Options) ("),
               N(servName), L("Client, error) {")>>),
           P(<<L("c, err := client.NewClient(opts,"), Quote(file.package), L(")")>>),
           P(<<L("if err != nil {return nil, err}")>>),
           P(<<L("rv := &"), N(unexport(servName)), L("Client{Client: c}")>>),
           P(<<L("return rv, nil")>>),
           P(<<L("}")>>),
           P(<<>>) >>
     \o Flatten([i \in 1..Len(methods) |-> generateClientMethod(origServName, methods[i])])
     \o << P(<<L("// Server API for "), N(servName), L(" service")>>),
           P(<<L("type "), N(servName \o <<"S","e","r","v","e","r">>), L(" interface {")>>) >>
     \o Flatten([i \in 1..Len(methods) |->
                   PrintComments(methods[i].leadingComments)
                     \o <<P(generateServerSignature(servName, methods[i]))>>])
     \o << P(<<L("}")>>),
           P(<<>>) >>

\* generateServerSetting(file): panics on an empty package name.
generateServerSettingPanics(file) == file.package = <<>>

\* UnaryMethods skipping the server-streaming methods only.
RECURSIVE UnaryMethods_mut(_)
UnaryMethods_mut(methods) ==
  IF methods = <<>> THEN <<>>
  ELSE IF Head(methods).serverStreaming
  THEN UnaryMethods_mut(Tail(methods))
  ELSE <<Head(methods)>> \o UnaryMethods_mut(Tail(methods))

\* The unary methods of a service, in declared order.
RECURSIVE UnaryMethods(_)
UnaryMethods(methods) ==
  IF methods = <<>> THEN <<>>
  ELSE IF Head(methods).serverStreaming \/ Head(methods).clientStreaming
  THEN UnaryMethods(Tail(methods))
  ELSE <<Head(methods)>> \o UnaryMethods(Tail(methods))

\* generateService after generateServerSetting: the registration function
\* and the service descriptor with its Methods table.
ServiceTail(file, service) ==
  LET origServName == service.name
      servName == CamelCase(origServName)
      serviceDescVar == <<"_">> \o servName \o <<"_","s","e","r","v","i","c","e","D","e","s","c">>
      unary == UnaryMethods(service.method)
  IN << P(<<>>),
        P(<<L("func Register"), N(servName), L("Server(s server.Server, srv "),
            N(servName \o <<"S","e","r","v","e","r">>), L(") {")>>),
        P(<<L("s.RegisterService(&"), N(serviceDescVar), L(", srv)")>>),
        P(<<L("}")>>),
        P(<<>>),
        P(<<L("var "), N(serviceDescVar), L(" = "), L("common.ServiceDescribe {")>>),
        P(<<L("ServiceName: "), Quote(origServName), L(",")>>),
        P(<<L("Methods: []"), L("string{")>>) >>
     \o [i \in 1..Len(unary) |-> P(<<Quote(unary[i].name), L(",")>>)]
     \o << P(<<L("},")>>),
           P(<<L("}")>>),
           P(<<>>) >>

\* generateService(file, service, index): the lines it emits and whether
\* it panicked (then only the lines before generateServerSetting).
generateService(file, service) ==
  IF generateServerSettingPanics(file)
  THEN [lines |-> ServiceHead(file, service), panicked |-> TRUE]
  ELSE [lines |-> ServiceHead(file, service) \o ServiceTail(file, service),
        panicked |-> FALSE]

\* generateServerPackage whose constructor leaves the last field unset.
generateServerPackage_mut(pkg, services) ==
  LET camelCasePkgName == CamelCase(ReplaceDots(pkg)) IN
  << P(<<L("type "), N(camelCasePkgName), L(" struct{")>>) >>
  \o [i \in 1..Len(services) |-> P(<<N(CamelCase(services[i].name)), L("Client")>>)]
  \o << P(<<L("}")>>),
        P(<<L("")>>),
        P(<<L("func New"), N(camelCasePkgName), L("(opts *options.Options) (*"),
            N(camelCasePkgName), L(",error){")>>),
        P(<<L("c, err := client.NewClient(opts,"), Quote(pkg), L(")")>>),
        P(<<L("if err!=nil{")>>),
        P(<<L("return nil,err")>>),
        P(<<L("}")>>),
        P(<<L("return &"), N(camelCasePkgName), L("{")>>) >>
  \o [i \in 1..(Len(services) - 1) |->
        P(<<N(CamelCase(services[i].name)), L("Client: &"),
            N(unexport(services[i].name)), L("Client{Client:c},")>>)]
  \o << P(<<L("},nil")>>),
        P(<<L("}")>>),
        P(<<L("")>>) >>

\* generateServerPackage(pkg, services): the aggregate type of the package
\* and its constructor.
generateServerPackage(pkg, services) ==
  LET camelCasePkgName == CamelCase(ReplaceDots(pkg)) IN
  << P(<<L("type "), N(camelCasePkgName), L(" struct{")>>) >>
  \o [i \in 1..Len(services) |-> P(<<N(CamelCase(services[i].name)), L("Client")>>)]
  \o << P(<<L("}")>>),
        P(<<L("")>>),
        P(<<L("func New"), N(camelCasePkgName), L("(opts *options.Options) (*"),
            N(camelCasePkgName), L(",error){")>>),
        P(<<L("c, err := client.NewClient(opts,"), Quote(pkg), L(")")>>),
        P(<<L("if err!=nil{")>>),
        P(<<L("return nil,err")>>),
        P(<<L("}")>>),
        P(<<L("return &"), N(camelCasePkgName), L("{")>>) >>
  \o [i \in 1..Len(services) |->
        P(<<N(CamelCase(services[i].name)), L("Client: &"),
            N(unexport(services[i].name)), L("Client{Client:c},")>>)]
  \o << P(<<L("},nil")>>),
        P(<<L("}")>>),
        P(<<L("")>>) >>

\* The loop of Generate over the services from position i: it stops at the
\* first service whose generation panics.
RECURSIVE GenerateServices(_, _)
GenerateServices(file, i) ==
  IF i > Len(file.service) THEN [lines |-> <<>>, panicked |-> FALSE]
  ELSE LET one == generateService(file, file.service[i]) IN
    IF one.panicked THEN one
    ELSE LET rest == GenerateServices(file, i + 1) IN
      [lines |-> one.lines \o rest.lines, panicked |-> rest.panicked]

\* Generate(file): the lines written to the file's buffer and whether the
\* call panicked.
GenerateText(file) ==
  IF Len(file.service) = 0 THEN [lines |-> <<>>, panicked |-> FALSE]
  ELSE LET preamble ==
             << P(<<L("// Reference imports to suppress errors if they are not otherwise used.")>>),
                P(<<>>),
                P(<<L("// This is a compile-time assertion to ensure that this generated file")>>),
                P(<<L("// is compatible with the carno package it is being compiled against.")>>),
                P(<<>>),
                P(<<L("const ServerName="), Quote(file.package)>>) >>
           svcs == GenerateServices(file, 1)
       IN IF svcs.panicked
          THEN [lines |-> preamble \o svcs.lines, panicked |-> TRUE]
          ELSE [lines |-> preamble \o svcs.lines
                            \o generateServerPackage(file.package, file.service),
                panicked |-> FALSE]

\* GenerateImports(file): the import declaration.
GenerateImportsText(file) ==
  IF Len(file.service) = 0 THEN <<>>
  ELSE << P(<<L("import (")>>),
          P(<<Quote(<<"c","a","r","n","o","/","c","l","i","e","n","t">>)>>),
          P(<<Quote(<<"c","a","r","n","o","/","s","e","r","v","e","r">>)>>),
          P(<<Quote(<<"c","a","r","n","o","/","o","p","t","i","o","n","s">>)>>),
          P(<<Quote(<<"c","a","r","n","o","/","c","o","m","m","o","n">>)>>),
          P(<<Quote(<<"c","o","n","t","e","x","t">>)>>),
          P(<<L(")")>>),
          P(<<>>) >>

\* ----------------------------------------------------- reading emitted text

\* Token k of a line is the literal s.
IsLit(line, k, s) == Len(line) >= k /\ line[k] = L(s)

\* The lines of a text that declare a client structure, as the declared
\* names (the part before "Client").
DeclaredClientStructs(text) ==
  {text[a][2].id : a \in {b \in 1..Len(text) :
     IsLit(text[b], 1, "type ") /\ IsLit(text[b], 3, "Client struct {")}}

\* The positions where an aggregate type is declared.
AggregateDecls(text) ==
  {a \in 1..Len(text) : IsLit(text[a], 1, "type ") /\ IsLit(text[a], 3, " struct{")}

\* The positions where an aggregate constructor starts.
ConstructorStarts(text) ==
  {a \in 1..Len(text) :
     IsLit(text[a], 1, "func New") /\ IsLit(text[a], 3, "(opts *options.Options) (*")}

\* The positions where a client method starts.
ClientMethodStarts(text) ==
  {a \in 1..Len(text) : IsLit(text[a], 1, "func (c *")}

\* The first position after pc holding the line ln (0 when there is none).
NextLine(text, pc, ln) ==
  IF \E j \in (pc + 1)..Len(text) : text[j] = ln
  THEN CHOOSE j \in (pc + 1)..Len(text) :
         text[j] = ln /\ \A k \in (pc + 1)..(j - 1) : text[k] # ln
  ELSE 0

\* The field lines of a composite literal or a struct type: the lines
\* after position a up to the closing line.
FieldLines(text, a, closing) == SubSeq(text, a + 1, NextLine(text, a, closing) - 1)

\* ------------------------------------------------- running the emitted code

\* The state of one execution of an emitted function: the error variable,
\* the connection variable c (0: none), the connections opened (by the
\* name each is scoped to), the calls invoked, and the operations that can
\* fail, in the order they ran.
NoError == "nil"
StartState == [err |-> NoError, c |-> 0, opened |-> <<>>, invoked |-> <<>>, ran |-> <<>>]

\* The error an operation returns when it fails.
ErrorOf(op) == "error of " \o op

Returned(st, isNil, fields, err) ==
  [returned |-> TRUE, isNil |-> isNil, fields |-> fields, err |-> err,
   opened |-> st.opened, invoked |-> st.invoked, ran |-> st.ran]

NoResult ==
  [returned |-> FALSE, isNil |-> TRUE, fields |-> <<>>, err |-> NoError,
   opened |-> <<>>, invoked |-> <<>>, ran |-> <<>>]

\* Exec(text, pc, st, fails): run the statements of the emitted text from
\* line pc; the operations in fails return their error.
RECURSIVE Exec(_, _, _, _)
Exec(text, pc, st, fails) ==
  LET ln == text[pc]
      outcome(op) == IF op \in fails THEN ErrorOf(op) ELSE NoError
      close == NextLine(text, pc, <<L("}")>>)
  IN
  CASE IsLit(ln, 1, "c, err := client.NewClient(opts,") ->
         Exec(text, pc + 1,
              [st EXCEPT !.opened = Append(@, ln[2].id),
                         !.ran = Append(@, "NewClient"),
                         !.err = outcome("NewClient"),
                         !.c = IF "NewClient" \in fails THEN 0 ELSE Len(st.opened) + 1],
              fails)
    [] IsLit(ln, 1, "inBytes, err := proto.Marshal(in)") ->
         Exec(text, pc + 1,
              [st EXCEPT !.ran = Append(@, "Marshal"), !.err = outcome("Marshal")], fails)
    [] IsLit(ln, 1, "resp, err := c.Client.Invoke(ctx, ") ->
         Exec(text, pc + 1,
              [st EXCEPT !.invoked = Append(@, <<ln[2].id, ln[4].id>>),
                         !.ran = Append(@, "Invoke"),
                         !.err = outcome("Invoke")], fails)
    [] IsLit(ln, 1, "out := new(") -> Exec(text, pc + 1, st, fails)
    [] ln \in {<<L("if err!=nil{")>>, <<L("if err != nil{")>>} ->
         IF st.err # NoError THEN Exec(text, pc + 1, st, fails)
         ELSE Exec(text, close + 1, st, fails)
    [] IsLit(ln, 1, "if err := proto.Unmarshal(resp, out); err != nil {") ->
         IF "Unmarshal" \in fails
         THEN Exec(text, pc + 1,
                   [st EXCEPT !.ran = Append(@, "Unmarshal"), !.err = ErrorOf("Unmarshal")],
                   fails)
         ELSE Exec(text, close + 1, [st EXCEPT !.ran = Append(@, "Unmarshal")], fails)
    [] ln \in {<<L("return nil,err")>>, <<L("return nil, err")>>} ->
         Returned(st, TRUE, <<>>, st.err)
    [] IsLit(ln, 1, "return out, nil") -> Returned(st, FALSE, <<>>, NoError)
    [] IsLit(ln, 1, "return &") ->
         LET inits == FieldLines(text, pc, <<L("},nil")>>) IN
         Returned(st, FALSE,
                  [k \in 1..Len(inits) |->
                     [field |-> inits[k][1].id, type |-> inits[k][3].id, conn |-> st.c]],
                  NoError)

\* ------------------------------------------------------------ state machine

VARIABLES
  files,    \* the input files of the run, in processing order
  cur,      \* the position of the file being processed
  phase,    \* "generate", "imports", "done", or "panicked"
  body,     \* per file, the lines Generate wrote
  imports,  \* per file, the lines GenerateImports wrote
  call      \* the last execution of an emitted function and its result

vars == <<files, cur, phase, body, imports, call>>

NoCall == [op |-> "none", file |-> 0, at |-> 0, fails |-> {}, res |-> NoResult]

Init ==
  /\ files \in Runs
  /\ cur = 1
  /\ phase = "generate"
  /\ body = [i \in 1..Len(files) |-> <<>>]
  /\ imports = [i \in 1..Len(files) |-> <<>>]
  /\ call = NoCall

\* The host calls Generate on the current file; a panic ends the run.
Generate ==
  /\ phase = "generate"
  /\ LET r == GenerateText(files[cur]) IN
       /\ body' = [body EXCEPT ![cur] = r.lines]
       /\ phase' = IF r.panicked THEN "panicked" ELSE "imports"
  /\ UNCHANGED <<files, cur, imports, call>>

\* The host then calls GenerateImports on it and moves to the next file.
GenerateImports ==
  /\ phase = "imports"
  /\ imports' = [imports EXCEPT ![cur] = GenerateImportsText(files[cur])]
  /\ cur' = cur + 1
  /\ phase' = IF cur = Len(files) THEN "done" ELSE "generate"
  /\ UNCHANGED <<files, body, call>>

\* The files that make up the Go package of file i.
SamePackage(i) == {j \in 1..Len(files) : files[j].package = files[i].package}

\* The Go package of file i builds only if ServerName is declared once in it.
DeclaredOnce(i) ==
  Cardinality({j \in SamePackage(i) : body[j] # <<>>}) = 1

\* The client structures declared in the Go package of file i.
PackageClientStructs(i) ==
  UNION {DeclaredClientStructs(body[j]) : j \in SamePackage(i)}

\* The position of the composite literal the constructor at line a returns.
ReturnLiteral(text, a) ==
  CHOOSE r \in (a + 1)..Len(text) :
    IsLit(text[r], 1, "return &") /\ \A k \in (a + 1)..(r - 1) : ~IsLit(text[k], 1, "return &")

\* The client structure types that literal names.
InitializerTypes(text, a) ==
  LET inits == FieldLines(text, ReturnLiteral(text, a), <<L("},nil")>>) IN
  {inits[k][3].id : k \in 1..Len(inits)}

\* A caller runs the aggregate constructor emitted at line a of file i;
\* opening the connection succeeds or fails.  The constructor exists only
\* if its package builds: every type it names is declared.
NewAggregate ==
  /\ phase = "done"
  /\ \E i \in 1..Len(files) : \E a \in ConstructorStarts(body[i]) :
     \E fails \in SUBSET {"NewClient"} :
       /\ DeclaredOnce(i)
       /\ InitializerTypes(body[i], a) \subseteq PackageClientStructs(i)
       /\ call' = [op |-> "NewAggregate", file |-> i, at |-> a, fails |-> fails,
                   res |-> Exec(body[i], a + 1, StartState, fails)]
  /\ UNCHANGED <<files, cur, phase, body, imports>>

\* The emitted client method at line a has a request parameter named in
\* and returns a pointer to a message: its body type-checks.
BodyTypeChecks(line) ==
  /\ \E k \in 1..Len(line) : line[k] = L(", in *")
  /\ \E k \in 1..(Len(line) - 2) :
       line[k] = L(", opts ...options.Option) (") /\ line[k + 1] = L("*")

\* A caller runs the client method emitted at line a of file i; marshalling,
\* the call over the connection and unmarshalling each succeed or fail.
ClientCall ==
  /\ phase = "done"
  /\ \E i \in 1..Len(files) : \E a \in ClientMethodStarts(body[i]) :
     \E fails \in SUBSET {"Marshal", "Invoke", "Unmarshal"} :
       /\ DeclaredOnce(i)
       /\ body[i][a][2].id \in PackageClientStructs(i)
       /\ BodyTypeChecks(body[i][a])
       /\ call' = [op |-> "ClientCall", file |-> i, at |-> a, fails |-> fails,
                   res |-> Exec(body[i], a + 1, StartState, fails)]
  /\ UNCHANGED <<files, cur, phase, body, imports>>

Next == Generate \/ GenerateImports \/ NewAggregate \/ ClientCall

Spec == Init /\ [][Next]_vars

\* ------------------------------------------------------ reading for claims

\* Generate has returned normally for file i.
Completed(i) == i < cur \/ (i = cur /\ phase = "imports")

\* Generate has been called on file i.
Started(i) == i < cur \/ (i = cur /\ phase # "generate")

\* The k-th smallest element of a set of positions.
NthOf(S, k) == CHOOSE x \in S : Cardinality({y \in S : y <= x}) = k

\* The names a sequence of lines carries in token k.
IdsAt(lines, k) == [j \in 1..Len(lines) |-> lines[j][k].id]

\* The positions of the lines whose first token is the literal s.
LinesStarting(text, s) == {a \in 1..Len(text) : IsLit(text[a], 1, s)}

\* The Methods table of the k-th service descriptor of a text.
MethodsTable(text, k) ==
  IdsAt(FieldLines(text, NthOf(LinesStarting(text, "Methods: []"), k), <<L("},")>>), 1)

\* The positions of the client and of the server interface declarations.
ClientInterfaces(text) ==
  {a \in 1..Len(text) : IsLit(text[a], 1, "type ") /\ IsLit(text[a], 3, "Client interface {")}
ServerInterfaces(text) ==
  {a \in 1..Len(text) : IsLit(text[a], 1, "type ") /\ IsLit(text[a], 3, " interface {")}

\* A comment line written by PrintComments.
IsPrintedComment(line) == IsLit(line, 1, "// ")

\* The lines of the block opened at position a that are not comments.
CodeLines(text, a) ==
  LET NotComment(line) == ~IsPrintedComment(line) IN
  SelectSeq(FieldLines(text, a, <<L("}")>>), NotComment)

\* The comment lines of the block opened at position a.
CommentLines(text, a) == SelectSeq(FieldLines(text, a, <<L("}")>>), IsPrintedComment)

\* The signatures of the k-th client and server interface of a text.
ClientSignatures(text, k) == CodeLines(text, NthOf(ClientInterfaces(text), k))
ServerSignatures(text, k) == CodeLines(text, NthOf(ServerInterfaces(text), k))

\* The tokens of a line strictly between the literals from and to.
Between(line, from, to) ==
  LET a == CHOOSE k \in 1..Len(line) : line[k] = L(from)
      b == CHOOSE k \in 1..Len(line) : line[k] = L(to)
  IN SubSeq(line, a + 1, b - 1)

\* The request parameter and the result type of a client signature.
RequestParam(sig) == Between(sig, "(ctx context.Context", ", opts ...options.Option) (")
ResultType(sig) == Between(sig, ", opts ...options.Option) (", ", error)")

Unary(m) == ~m.clientStreaming /\ ~m.serverStreaming

\* ------------------------------------------------------------------ claims

\* C1: for every service of a generated file, the Methods table of its
\* descriptor is exactly the declared methods with both streaming flags
\* false, in declared order, by raw name.
C1_MethodsTableIsUnarySubsequence ==
  \A i \in 1..Len(files) : Completed(i) =>
    \A k \in 1..Len(files[i].service) :
      LET unary == SelectSeq(files[i].service[k].method, Unary) IN
      MethodsTable(body[i], k) = [j \in 1..Len(unary) |-> unary[j].name]

\* C1 witness: a generated service with a streaming method declared before
\* a unary one, whose table holds the unary one alone.
C1_Witness ==
  \E i \in 1..Len(files) : Completed(i) /\
    \E k \in 1..Len(files[i].service) :
      LET ms == files[i].service[k].method IN
      /\ Len(ms) = 2 /\ ms[1].clientStreaming /\ ~ms[1].serverStreaming /\ Unary(ms[2])
      /\ MethodsTable(body[i], k) = <<ms[2].name>>

\* C8: the client interface of every service has one signature per declared
\* method, in declared order; a unary method takes (context, *Input,
\* options...) and returns (*Output, error); a streaming method returns the
\* stream handle <Service>_<Method>Client; a client-streaming method has no
\* request parameter.
C8_ClientInterfaceShape ==
  \A i \in 1..Len(files) : Completed(i) =>
    \A k \in 1..Len(files[i].service) :
      LET svc == files[i].service[k]
          sigs == ClientSignatures(body[i], k)
      IN /\ Len(sigs) = Len(svc.method)
         /\ \A j \in 1..Len(sigs) :
              LET m == svc.method[j] IN
              /\ sigs[j][1] = N(CamelCase(m.name))
              /\ sigs[j][2] = L("(ctx context.Context")
              /\ RequestParam(sigs[j]) =
                   IF m.clientStreaming THEN <<>>
                   ELSE <<L(", in *"), N(CamelCase(m.inputType))>>
              /\ ResultType(sigs[j]) =
                   IF Unary(m) THEN <<L("*"), N(CamelCase(m.outputType))>>
                   ELSE <<N(CamelCase(svc.name)), L("_"), N(CamelCase(m.name)), L("Client")>>

\* C8 witness: a generated interface with a server-streaming method (stream
\* handle, request kept) that carries a leading comment of two lines,
\* followed by a client-streaming one (no request).
C8_Witness ==
  \E i \in 1..Len(files) : Completed(i) /\
    \E k \in 1..Len(files[i].service) :
      LET ms == files[i].service[k].method
          sigs == ClientSignatures(body[i], k)
      IN /\ Len(ms) = 2 /\ Len(sigs) = 2
         /\ ms[1].serverStreaming /\ ~ms[1].clientStreaming /\ ms[2].clientStreaming
         /\ RequestParam(sigs[1]) # <<>> /\ RequestParam(sigs[2]) = <<>>
         /\ ms[1].name = nWatch
         /\ Len(CommentLines(body[i], NthOf(ClientInterfaces(body[i]), k))) >= 2
         /\ ResultType(sigs[1])[4] = L("Client")

\* The unary shape of a server signature: (context, *Input) (*Output, error).
IsUnaryServerShape(sig, m) ==
  sig = <<N(CamelCase(m.name)), L("("), L("context.Context"), L(", "), L("*"),
          N(CamelCase(m.inputType)), L(") "), L("(*"), N(CamelCase(m.outputType)),
          L(", error)")>>

\* C9 (as claimed): the server interface of every service has one signature
\* per declared method, in declared order, under the identifier the client
\* interface uses, and a method whose client signature is a streaming shape
\* has a server signature that is not the unary shape.
C9_ServerMirrorsClient ==
  \A i \in 1..Len(files) : Completed(i) =>
    \A k \in 1..Len(files[i].service) :
      LET svc == files[i].service[k]
          client == ClientSignatures(body[i], k)
          server == ServerSignatures(body[i], k)
      IN /\ Len(server) = Len(svc.method)
         /\ \A j \in 1..Len(server) :
              /\ server[j][1] = client[j][1]
              /\ ~Unary(svc.method[j]) => ~IsUnaryServerShape(server[j], svc.method[j])

\* The positions of the client structure declarations.
ClientStructs(text) ==
  {a \in 1..Len(text) : IsLit(text[a], 1, "type ") /\ IsLit(text[a], 3, "Client struct {")}

\* The names of the client implementation type of the k-th service of a
\* text: as declared, as built by the factory, as the receiver of each
\* client method, and as initialised in the aggregate.
DeclaredName(text, k) == text[NthOf(ClientStructs(text), k)][2].id
FactoryName(text, k) == text[NthOf(LinesStarting(text, "rv := &"), k)][2].id
ReceiverNames(text, k) ==
  {text[a][2].id : a \in {b \in ClientMethodStarts(text) :
     /\ b > NthOf(ClientStructs(text), k)
     /\ b < NthOf(LinesStarting(text, "// Server API for "), k)}}
InitializerName(text, k) ==
  FieldLines(text, ReturnLiteral(text, NthOf(ConstructorStarts(text), 1)),
             <<L("},nil")>>)[k][3].id

\* C10 (as claimed): for every service name, every reference to the client
\* implementation type names the declared type: the factory, the receiver
\* of each client method and the aggregate initialiser use the identifier
\* of the struct declaration.
C10_ClientTypeNamedConsistently ==
  \A i \in 1..Len(files) : Completed(i) =>
    \A k \in 1..Len(files[i].service) :
      LET d == DeclaredName(body[i], k) IN
      /\ FactoryName(body[i], k) = d
      /\ \A r \in ReceiverNames(body[i], k) : r = d
      /\ InitializerName(body[i], k) = d

\* The aggregates emitted so far for the package of file i, as (file,
\* line) pairs.
AggregatesOf(i) ==
  UNION {{<<j, a>> : a \in AggregateDecls(body[j])} : j \in SamePackage(i)}

\* C2 (as claimed): the aggregate of a package is emitted at most once,
\* only after the services of every file of the package have been emitted,
\* and once the run is over it has been emitted exactly once.
C2_AggregateOncePerPackage ==
  \A i \in 1..Len(files) :
    /\ Cardinality(AggregatesOf(i)) <= 1
    /\ AggregatesOf(i) # {} =>
         \A j \in SamePackage(i) : files[j].service # <<>> => Completed(j)
    /\ (phase = "done" /\ files[i].service # <<>>) => Cardinality(AggregatesOf(i)) = 1

\* The services of the package of file i over all files from position j,
\* in file order and then declaration order.
RECURSIVE PackageServices(_, _)
PackageServices(i, j) ==
  IF j > Len(files) THEN <<>>
  ELSE (IF files[j].package = files[i].package THEN files[j].service ELSE <<>>)
         \o PackageServices(i, j + 1)

\* C3 (as claimed): once the run is over, every aggregate type of a package
\* has one field <ServiceIdentifier>Client per service the package
\* declares over all input files, in file order and declaration order.
C3_AggregateHoldsEveryService ==
  phase = "done" =>
    \A i \in 1..Len(files) : \A a \in AggregateDecls(body[i]) :
      LET all == PackageServices(i, 1) IN
      FieldLines(body[i], a, <<L("}")>>) =
        [k \in 1..Len(all) |-> <<N(CamelCase(all[k].name)), L("Client")>>]

\* C4 (as claimed): Generate on a file with services and an empty package
\* name fails and leaves no line of output for the file.
C4_EmptyPackageNoOutput ==
  \A i \in 1..Len(files) :
    (files[i].package = <<>> /\ files[i].service # <<>> /\ Started(i)) =>
      (phase = "panicked" /\ body[i] = <<>>)

\* The comment lines of the generator.
IsComment(line) ==
  \/ IsPrintedComment(line)
  \/ IsLit(line, 1, "// Reference imports to suppress errors if they are not otherwise used.")
  \/ IsLit(line, 1, "// This is a compile-time assertion to ensure that this generated file")
  \/ IsLit(line, 1, "// is compatible with the carno package it is being compiled against.")
  \/ IsLit(line, 1, "// Client API for ")
  \/ IsLit(line, 1, "// Server API for ")

\* carno.SupportPackageIsVersionN, N being generatedCodeVersion.
SupportPackageIsVersion ==
  <<"S","u","p","p","o","r","t","P","a","c","k","a","g","e","I","s",
    "V","e","r","s","i","o","n">> \o <<DigitSeq[generatedCodeVersion + 1]>>

\* C6 (as claimed): the text Generate and GenerateImports emit for a file
\* with a service holds a line of code, not a comment, that names the
\* version marker.
C6_ReferencesVersionMarker ==
  \A i \in 1..Len(files) :
    (i < cur /\ files[i].service # <<>>) =>
      \E line \in {imports[i][a] : a \in 1..Len(imports[i])}
                    \cup {body[i][a] : a \in 1..Len(body[i])} :
        /\ ~IsComment(line)
        /\ \E k \in 1..Len(line) : line[k].id = SupportPackageIsVersion

\* The (service, method) pairs of a file in the order their client methods
\* are emitted.
FlatMethods(file) ==
  Flatten([k \in 1..Len(file.service) |->
             [j \in 1..Len(file.service[k].method) |->
                <<file.service[k], file.service[k].method[j]>>]])

\* The service and the method of the client method that call ran.
CalledMethod ==
  FlatMethods(files[call.file])
    [Cardinality({b \in ClientMethodStarts(body[call.file]) : b <= call.at})]

\* C5 (as claimed): the body of a unary client method runs the call over
\* the connection and nothing else that can fail, so the error returned is
\* nil or the error of that call.
C5_OnlyInvokeCanFail ==
  call.op = "ClientCall" =>
    /\ call.res.ran = <<"Invoke">>
    /\ call.res.invoked = <<<<CalledMethod[1].name, CalledMethod[2].name>>>>
    /\ call.res.err \in {NoError, ErrorOf("Invoke")}

\* C5 (amended): the body of a unary client method marshals the request,
\* invokes the call over the connection held by the client with the raw
\* service name and the raw method name, and unmarshals the response, in
\* this order; it returns at the first step that fails, with no value and
\* that step's error unchanged, and otherwise the response and no error.
C5_ErrorsPassUnchanged ==
  call.op = "ClientCall" =>
    LET f == call.fails
        r == call.res
    IN /\ Unary(CalledMethod[2])
       /\ r.returned
       /\ r.opened = <<>>
       /\ r.ran = IF "Marshal" \in f THEN <<"Marshal">>
                  ELSE IF "Invoke" \in f THEN <<"Marshal", "Invoke">>
                  ELSE <<"Marshal", "Invoke", "Unmarshal">>
       /\ r.invoked = IF "Marshal" \in f THEN <<>>
                      ELSE <<<<CalledMethod[1].name, CalledMethod[2].name>>>>
       /\ r.err = IF "Marshal" \in f THEN ErrorOf("Marshal")
                  ELSE IF "Invoke" \in f THEN ErrorOf("Invoke")
                  ELSE IF "Unmarshal" \in f THEN ErrorOf("Unmarshal")
                  ELSE NoError
       /\ r.isNil <=> (r.err # NoError)

\* C5 witness: a call of the method get_it of the service user in which
\* marshalling succeeds and the call over the connection fails.
C5_Witness ==
  /\ call.op = "ClientCall"
  /\ call.fails = {"Invoke", "Unmarshal"}
  /\ call.res.invoked = <<<<nUser, nGetIt>>>>
  /\ call.res.err = ErrorOf("Invoke")
  /\ call.res.isNil

\* C7: the aggregate constructor opens exactly one connection, scoped to
\* the package name; when that fails it returns no aggregate and the error
\* unchanged; when it succeeds it returns an aggregate in which every
\* declared field, one per service, is set to a client holding that one
\* connection.
C7_ConstructorAllOrNothing ==
  call.op = "NewAggregate" =>
    LET text == body[call.file]
        r == call.res
        declared == IdsAt(FieldLines(text, NthOf(AggregateDecls(text), 1), <<L("}")>>), 1)
    IN /\ r.returned
       /\ r.opened = <<files[call.file].package>>
       /\ "NewClient" \in call.fails =>
            (r.isNil /\ r.fields = <<>> /\ r.err = ErrorOf("NewClient"))
       /\ "NewClient" \notin call.fails =>
            /\ ~r.isNil /\ r.err = NoError
            /\ Len(r.fields) = Len(files[call.file].service)
            /\ [k \in 1..Len(r.fields) |-> r.fields[k].field] = declared
            /\ \A k \in 1..Len(r.fields) : r.fields[k].conn = 1

\* C7 witness: a constructor of an aggregate of two services that returned
\* both fields set on the one connection it opened.
C7_Witness ==
  /\ call.op = "NewAggregate"
  /\ call.fails = {}
  /\ ~call.res.isNil
  /\ Len(call.res.fields) = 2
  /\ call.res.opened = <<pDemo>>

====
